---- MODULE Spec2Model ----
(***************************************************************************)
(* The library REST API: registration and login (routes/authRoutes.js),    *)
(* the bearer-token middleware (middleware/auth), the book routes          *)
(* (routes/bookRoutes.js) and the error handler, over the two collections  *)
(* of the document store.                                                  *)
(*                                                                         *)
(* A request is one or two atomic steps.  Everything a handler does up to  *)
(* and including its first store call is the first step; a handler that    *)
(* awaits a second store call (Register: findOne then save; PUT, PATCH,    *)
(* DELETE: findById then findByIdAndUpdate / findByIdAndDelete) stays in   *)
(* `inflight` between the two, and other requests may run in between.      *)
(* `last` is the most recently answered request with its response.         *)
(***************************************************************************)
EXTENDS Bags, FiniteSets, Integers, Sequences, TLC

VARIABLES
    harness,    \* "app": src/app.js wiring, the routes behind middleware/auth;
                \* "unit": the wiring of tests/unit/bookRoutes.test.js, where
                \*         middleware/auth is replaced by the jest mock
    now,        \* seconds since the process started
    year,       \* the calendar year, new Date().getFullYear()
    users,      \* the User collection: a set of documents
    books,      \* the Book collection: _id -> document
    created,    \* number of Book documents constructed so far (ObjectIds are never reused)
    issued,     \* the tokens jwt.sign has produced
    inflight,   \* bag of requests between their first and their second store call
    started,    \* number of requests received
    last        \* the most recently answered request and its response

vars == <<harness, year, now, users, books, created, issued, inflight, started, last>>

-----------------------------------------------------------------------------
(* Bounds *)

MaxRequests == 4     \* requests received in one behaviour
MaxAuthRequests == 3 \* requests received in one behaviour of the auth routes alone
MaxInFlight == 2     \* requests that may be between two store calls at once
MaxTicks    == 3     \* clock steps in one behaviour
MaxValidationRequests == 3 \* requests received in one behaviour of the validation chains
MaxYears    == 1     \* turns of the calendar year in one behaviour
MaxFaultRequests == 3 \* requests received in one behaviour with failing store calls

(* Program constants *)

MinUsernameLength == 6      \* body('username').isLength({ min: 6 })
MinPasswordLength == 8      \* body('password').isLength({ min: 8 })
ExpiresIn         == 3600   \* jwt.sign(..., { expiresIn: '1h' }), in seconds
MinYear           == 1      \* isInt({ min: 1, ... })
StartYear         == 2024   \* new Date().getFullYear(), evaluated when bookRoutes.js is loaded

(* Inputs *)

Usernames == {"alice01", "bobby02", "al"}
Passwords == {"secretpw", "otherpass", "short"}
Salts     == {"s1", "s2"}

-----------------------------------------------------------------------------
(* bcryptjs: a salted one-way hash; compare re-hashes with the stored salt *)

bcrypt_hash(password, salt) == [salt |-> salt, digest |-> <<salt, password>>]

bcrypt_compare(password, hash) == hash.digest = <<hash.salt, password>>

(* jsonwebtoken *)

jwt_sign_TwoHours(payload, key, t) ==
    [username |-> payload.username, iat |-> t, exp |-> t + 2 * ExpiresIn, key |-> key]

jwt_sign(payload, key, t) ==
    [username |-> payload.username, iat |-> t, exp |-> t + ExpiresIn, key |-> key]

jwt_verify_IgnoresSignature(token, key, t) == t < token.exp

jwt_verify(token, key, t) == token.key = key /\ t < token.exp

jwt_decoded(token) == [username |-> token.username, iat |-> token.iat, exp |-> token.exp]

-----------------------------------------------------------------------------------------------------------------------------------------------------
(* Requests and responses *)

NoUser   == [anonymous |-> TRUE]    \* req.user is undefined
NoBody   == [empty |-> TRUE]
NoId     == [none |-> TRUE]         \* the route has no :id parameter
Null     == [null |-> TRUE]
NoHeader == [scheme |-> "none"]     \* no Authorization header

\* A request as its handler holds it: n is its arrival number, `at` its arrival
\* time and yr the calendar year then; user is req.user; book is the handler's local `book` (the result of
\* Book.findById), Null until it is assigned.  createdBy is history: the identity
\* of the request answered just before this one arrived, when that request
\* created the document this one names.
Request(route, header, user, id, body) ==
    [n |-> started + 1, at |-> now, yr |-> year, route |-> route, header |-> header, user |-> user,
     id |-> id, body |-> body, book |-> Null, createdBy |-> NoUser]

\* the response sent for req, and the stage of the handler that sent it
Answer(req, phase, status, reply) ==
    [n |-> req.n, at |-> req.at, yr |-> req.yr, route |-> req.route, header |-> req.header,
     user |-> req.user, id |-> req.id, body |-> req.body, book |-> req.book,
     createdBy |-> req.createdBy, phase |-> phase, status |-> status, reply |-> reply]

Receive ==
    /\ started < MaxRequests
    /\ started' = started + 1

-----------------------------------------------------------------------------
(* The User collection.  models/userModel: the username field carries a    *)
(* unique index, so an insert of a second document with the same username  *)
(* fails with error code 11000.                                            *)

findOne(username) == {u \in users : u.username = username}

UniqueIndexViolated_NoIndex(username) == FALSE

UniqueIndexViolated(username) == \E u \in users : u.username = username

NewUserId == Cardinality(users) + 1

-----------------------------------------------------------------------------
(* middleware/errorHandler *)

errorHandler(err) ==
    LET statusCode == IF "status" \in DOMAIN err THEN err.status ELSE 500
    IN  [status |-> statusCode,
         reply |-> [error |-> [message |-> err.message, status |-> statusCode]]]

-----------------------------------------------------------------------------
(* routes/authRoutes.js *)

registerErrors_UsernameOnly(body) ==
    {f \in {"username"} : Len(body.username) < MinUsernameLength}

registerErrors(body) ==
    {f \in {"username"} : Len(body.username) < MinUsernameLength}
    \cup {f \in {"password"} : Len(body.password) < MinPasswordLength}

usernameExists_Conflict ==
    [status |-> 409, reply |-> [message |-> "Username already exists"]]

\* if (existingUser) return res.status(400).json(...)
usernameExists == [status |-> 400, reply |-> [message |-> "Username already exists"]]

registerCatch_NoDuplicateKeyCase(error) == errorHandler(error)

\* the catch block of the register handler
registerCatch(error) ==
    IF error.code = 11000
    THEN [status |-> 400, reply |-> [message |-> "Username already exists"]]
    ELSE errorHandler(error)

\* POST /auth/register up to and including User.findOne
RegisterBegin(username, password) ==
    LET body == [username |-> username, password |-> password]
        req == Request("register", NoHeader, NoUser, NoId, body)
        errors == registerErrors(body)
    IN  /\ Receive
        /\ IF errors # {}
           THEN /\ last' = Answer(req, "validation", 400, [errors |-> errors])
                /\ UNCHANGED inflight
           ELSE IF findOne(username) # {}
           THEN /\ last' = Answer(req, "lookup", usernameExists.status, usernameExists.reply)
                /\ UNCHANGED inflight
           ELSE /\ BagCardinality(inflight) < MaxInFlight
                /\ inflight' = inflight (+) SetToBag({req})
                /\ UNCHANGED last
        /\ UNCHANGED <<harness, year, now, users, books, created, issued>>

RegisterSave_IssuesToken(p, salt) ==
    LET token == jwt_sign([username |-> p.body.username], "jwtSecret", now)
    IN  /\ BagIn(p, inflight)
        /\ p.route = "register"
        /\ ~UniqueIndexViolated(p.body.username)
        /\ inflight' = inflight (-) SetToBag({p})
        /\ users' = users \cup
               {[_id |-> NewUserId, username |-> p.body.username,
                 password |-> bcrypt_hash(p.body.password, salt)]}
        /\ issued' = issued \cup {token}
        /\ last' = Answer(p, "write", 201, [token |-> token])
        /\ UNCHANGED <<harness, year, now, books, created, started>>

\* POST /auth/register from bcrypt.hash to the response
RegisterSave(p, salt) ==
    LET caught == registerCatch([code |-> 11000, message |-> "E11000 duplicate key error"])
    IN  /\ BagIn(p, inflight)
        /\ p.route = "register"
        /\ inflight' = inflight (-) SetToBag({p})
        /\ IF UniqueIndexViolated(p.body.username)
           THEN /\ last' = Answer(p, "write", caught.status, caught.reply)
                /\ UNCHANGED users
           ELSE /\ users' = users \cup
                      {[_id |-> NewUserId, username |-> p.body.username,
                        password |-> bcrypt_hash(p.body.password, salt)]}
                /\ last' = Answer(p, "write", 201, [text |-> "User registered successfully"])
        /\ UNCHANGED <<harness, year, now, books, created, issued, started>>

loginErrors(body) ==
    {f \in {"username"} : body.username = ""} \cup {f \in {"password"} : body.password = ""}

LoginResponse_UnknownUser(body, userDocs, t) ==
    LET found == {u \in userDocs : u.username = body.username}
    IN  IF found = {}
        THEN [status |-> 404, reply |-> [text |-> "User not found"]]
        ELSE IF \E user \in found : bcrypt_compare(body.password, user.password)
        THEN [status |-> 200,
              reply |-> [token |-> jwt_sign([username |-> body.username], "jwtSecret", t)]]
        ELSE [status |-> 400, reply |-> [text |-> "Invalid credentials"]]

\* the status and payload of POST /auth/login for a body that passed validation
LoginResponse(body, userDocs, t) ==
    LET found == {u \in userDocs : u.username = body.username}
    IN  IF \E user \in found : bcrypt_compare(body.password, user.password)
        THEN [status |-> 200,
              reply |-> [token |-> jwt_sign([username |-> body.username], "jwtSecret", t)]]
        ELSE [status |-> 400, reply |-> [text |-> "Invalid credentials"]]

\* POST /auth/login
Login(username, password) ==
    LET body == [username |-> username, password |-> password]
        req == Request("login", NoHeader, NoUser, NoId, body)
        errors == loginErrors(body)
        res == LoginResponse(body, users, now)
    IN  /\ Receive
        /\ IF errors # {}
           THEN /\ last' = Answer(req, "validation", 400, [errors |-> errors])
                /\ UNCHANGED issued
           ELSE /\ last' = Answer(req, "lookup", res.status, res.reply)
                /\ issued' = IF res.status = 200 THEN issued \cup {res.reply.token} ELSE issued
        /\ UNCHANGED <<harness, year, now, users, books, created, inflight>>

\* time passes, in steps of half a token lifetime; it is observable through tokens only
Tick ==
    /\ issued # {}
    /\ now < MaxTicks * (ExpiresIn \div 2)
    /\ now' = now + ExpiresIn \div 2
    /\ UNCHANGED <<harness, year, users, books, created, issued, inflight, started, last>>

\* the calendar year turns while the process keeps running
NewYear ==
    /\ year < StartYear + MaxYears
    /\ year' = year + 1
    /\ UNCHANGED <<harness, now, users, books, created, issued, inflight, started, last>>

-----
(* middleware/auth and its test double *)

Headers ==
    {NoHeader, [scheme |-> "Basic"]}
    \cup {[scheme |-> "Bearer", token |-> t] : t \in issued}
    \cup {[scheme |-> "Bearer", token |-> jwt_sign([username |-> u], "forged", 0)] :
              u \in {"alice01"}}

auth_NextOnFailure(header, t) ==
    IF header.scheme = "Bearer" /\ jwt_verify(header.token, "jwtSecret", t)
    THEN [next |-> TRUE, status |-> 0, user |-> jwt_decoded(header.token), reply |-> NoBody]
    ELSE [next |-> TRUE, status |-> 0, user |-> NoUser, reply |-> NoBody]

auth_Unauthorized(header, t) ==
    IF header.scheme = "Bearer" /\ jwt_verify(header.token, "jwtSecret", t)
    THEN [next |-> TRUE, status |-> 0, user |-> jwt_decoded(header.token), reply |-> NoBody]
    ELSE [next |-> FALSE, status |-> 401, user |-> NoUser,
          reply |-> [message |-> "No token, authorization denied"]]

\* module.exports = (req, res, next) => ... of middleware/auth
auth(header, t) ==
    IF header.scheme = "none"
    THEN [next |-> FALSE, status |-> 401, user |-> NoUser,
          reply |-> [message |-> "No token, authorization denied"]]
    ELSE IF header.scheme # "Bearer"
    THEN [next |-> FALSE, status |-> 401, user |-> NoUser,
          reply |-> [message |-> "Invalid token format"]]
    ELSE IF jwt_verify(header.token, "jwtSecret", t)
    THEN [next |-> TRUE, status |-> 0, user |-> jwt_decoded(header.token), reply |-> NoBody]
    ELSE [next |-> FALSE, status |-> 403, user |-> NoUser,
          reply |-> [message |-> "Token is not valid"]]

\* jest.fn((req, res, next) => { req.user = { _id: mockUserId, username: 'testuser' }; next(); })
mockAuth(identity) == [next |-> TRUE, status |-> 0, user |-> identity, reply |-> NoBody]

\* what a client can send: under the test double the header is not read and the
\* identity is that of a stored user
Credentials ==
    IF harness = "app"
    THEN {[header |-> h, identity |-> NoUser] : h \in Headers}
    ELSE {[header |-> NoHeader, identity |-> [_id |-> u._id, username |-> u.username]] :
              u \in users}

Gate(cred) == IF harness = "app" THEN auth(cred.header, now) ELSE mockAuth(cred.identity)

-----------------------------------------------------------------------------
(* express-validator chains of routes/bookRoutes.js *)

Has(body, f) == f \in DOMAIN body

\* A value of the publishedYear field as the validator sees it: [int |-> n] for
\* an integer numeral, [text |-> s] for anything else.
Num(n) == [int |-> n]

isInt(v) == "int" \in DOMAIN v

\* isInt({ min: 1, max: new Date().getFullYear() })
isYear_NoMax(y) == isInt(y) /\ y.int >= MinYear

isYear(y) == isInt(y) /\ y.int >= MinYear /\ y.int <= StartYear

validateBook(body) ==
    {f \in {"title"} : ~Has(body, f) \/ body.title = ""}
    \cup {f \in {"author"} : ~Has(body, f) \/ body.author = ""}
    \cup {f \in {"publishedYear"} : ~Has(body, f) \/ ~isYear(body.publishedYear)}

validatePatch(body) ==
    {f \in {"title"} : Has(body, f) /\ body.title = ""}
    \cup {f \in {"author"} : Has(body, f) /\ body.author = ""}
    \cup {f \in {"publishedYear"} : Has(body, f) /\ ~isYear(body.publishedYear)}

\* mongoose.Types.ObjectId.isValid
isValid(id) == "oid" \in DOMAIN id

-----------------------------------------------------------------------------
(* models/bookModel.js and the Book collection *)

SchemaFields == {"title", "author", "publishedYear", "addedBy"}

\* the fields of an update or constructor argument that the schema keeps
Schema(fields) == [f \in DOMAIN fields \cap SchemaFields |-> fields[f]]

WithAddedBy_BodyWins(body, user) ==
    IF "addedBy" \in DOMAIN body \/ "_id" \notin DOMAIN user
    THEN body ELSE body @@ [addedBy |-> user._id]

\* { ...req.body, addedBy: req.user._id }: the key is present even when the value is undefined
WithAddedBy(body, user) ==
    LET rest == [f \in DOMAIN body \ {"addedBy"} |-> body[f]]
    IN  IF "_id" \in DOMAIN user THEN rest @@ [addedBy |-> user._id] ELSE rest

\* book.addedBy.equals(req.user._id)
equals(addedBy, user) == "_id" \in DOMAIN user /\ addedBy = user._id

\* required: true on every path of bookSchema
schemaErrors(doc) == SchemaFields \ DOMAIN doc

findById(id) == IF id.oid \in DOMAIN books THEN books[id.oid] ELSE Null

\* .populate('addedBy', 'username')
populate(doc, userDocs) ==
    IF doc = Null THEN Null
    ELSE LET found == {u \in userDocs : u._id = doc.addedBy}
         IN  [doc EXCEPT !.addedBy =
                 IF found = {} THEN Null
                 ELSE LET u == CHOOSE x \in found : TRUE
                      IN  [_id |-> u._id, username |-> u.username]]

applyUpdate_SkipsTitle(doc, update) ==
    [f \in DOMAIN doc |-> IF f \in DOMAIN update \ {"title"} THEN update[f] ELSE doc[f]]

\* the document an update leaves: the fields of the update replace those of the document
applyUpdate(doc, update) ==
    [f \in DOMAIN doc |-> IF f \in DOMAIN update THEN update[f] ELSE doc[f]]

-----------------------------------------------------------------------------------------------------------------------------------------------------
(* routes/bookRoutes.js *)

Bodies ==
    { [title |-> "Go", author |-> "X", publishedYear |-> Num(2020)],
      [title |-> "Rust", author |-> "Y", publishedYear |-> Num(StartYear)],
      [title |-> "", author |-> "X", publishedYear |-> Num(2020)],
      [title |-> "Zig"],
      [title |-> "Go", author |-> "X", publishedYear |-> Num(2020), addedBy |-> 2] }

\* the bodies above and those each rule of the validation chains rejects
WireBodies ==
    Bodies \cup
    { [title |-> "Go", author |-> "", publishedYear |-> Num(2020)],
      [title |-> "Go", author |-> "X", publishedYear |-> Num(MinYear - 1)],
      [title |-> "Go", author |-> "X", publishedYear |-> Num(StartYear + 1)],
      [title |-> "Go", author |-> "X", publishedYear |-> [text |-> "MMXX"]],
      [title |-> "Go", author |-> "X"],
      [publishedYear |-> Num(MinYear - 1)],
      [author |-> "", publishedYear |-> Num(MinYear)] }

ParamIds == {[oid |-> n] : n \in 1..(created + 1)} \cup {[raw |-> "not-an-object-id"]}

\* POST /books
CreateBook(cred, body) ==
    LET g == Gate(cred)
        req == Request("POST", cred.header, g.user, NoId, body)
        errors == validateBook(body)
        doc == Schema(WithAddedBy(body, g.user))
        saved == [_id |-> created + 1] @@ doc
        e == errorHandler([message |-> "Book validation failed"])
    IN  /\ Receive
        /\ IF ~g.next
           THEN /\ last' = Answer(req, "gate", g.status, g.reply)
                /\ UNCHANGED <<books, created>>
           ELSE IF errors # {}
           THEN /\ last' = Answer(req, "validation", 400, [errors |-> errors])
                /\ UNCHANGED <<books, created>>
           ELSE IF schemaErrors(doc) # {}
           THEN \* book.save() rejects; next(error)
                /\ last' = Answer(req, "error", e.status, e.reply)
                /\ UNCHANGED <<books, created>>
           ELSE /\ books' = books @@ (saved._id :> saved)
                /\ created' = created + 1
                /\ last' = Answer(req, "write", 201, [book |-> saved])
        /\ UNCHANGED <<harness, year, now, users, issued, inflight>>

ListBooks_FirstPage ==
    /\ Receive
    /\ last' = Answer(Request("LIST", NoHeader, NoUser, NoId, NoBody), "lookup", 200,
                      [books |-> {populate(books[i], users) : i \in DOMAIN books \cap {1}}])
    /\ UNCHANGED <<harness, year, now, users, books, created, issued, inflight>>

\* GET /books
ListBooks ==
    /\ Receive
    /\ last' = Answer(Request("LIST", NoHeader, NoUser, NoId, NoBody), "lookup", 200,
                      [books |-> {populate(books[i], users) : i \in DOMAIN books}])
    /\ UNCHANGED <<harness, year, now, users, books, created, issued, inflight>>

\* the identity that created the document `id` names, when the request answered
\* last is the POST that created it
CreatorJustNow(id) ==
    IF last.route = "POST" /\ last.status = 201 /\ id = [oid |-> last.reply.book._id]
    THEN last.user ELSE NoUser

GetBook_InvalidIdAsNotFound(id) ==
    LET req == [Request("GET", NoHeader, NoUser, id, NoBody) EXCEPT
                    !.createdBy = CreatorJustNow(id),
                    !.book = IF isValid(id) THEN findById(id) ELSE Null]
    IN  /\ Receive
        /\ IF req.book = Null
           THEN last' = Answer(req, "lookup", 404, [message |-> "Book not found"])
           ELSE last' = Answer(req, "lookup", 200, [book |-> populate(req.book, users)])
        /\ UNCHANGED <<harness, year, now, users, books, created, issued, inflight>>

\* GET /books/:id
GetBook(id) ==
    LET req == [Request("GET", NoHeader, NoUser, id, NoBody) EXCEPT
                    !.createdBy = CreatorJustNow(id),
                    !.book = IF isValid(id) THEN findById(id) ELSE Null]
    IN  /\ Receive
        /\ IF ~isValid(id)
           THEN last' = Answer(req, "id", 400, [message |-> "Invalid book ID"])
           ELSE IF req.book = Null
           THEN last' = Answer(req, "lookup", 404, [message |-> "Book not found"])
           ELSE last' = Answer(req, "lookup", 200, [book |-> populate(req.book, users)])
        /\ UNCHANGED <<harness, year, now, users, books, created, issued, inflight>>

afterLookup_NoOwnerCheck(book, user) == IF book = Null THEN "missing" ELSE "write"

afterLookup_OwnerFirst(book, user) ==
    IF book = Null \/ ~equals(book.addedBy, user) THEN "denied" ELSE "write"

\* what the handler does with the result of Book.findById
\*   "missing": 404; "denied": 403; "write": go on to the write
afterLookup(book, user) ==
    IF book = Null THEN "missing"
    ELSE IF ~equals(book.addedBy, user) THEN "denied"
    ELSE "write"

MutationBegin_IdFirst(route, cred, id, body, errors, denied) ==
    LET g == Gate(cred)
        arrived == Request(route, cred.header, g.user, id, body)
        lookedUp == g.next /\ errors = {} /\ isValid(id)
        req == [arrived EXCEPT !.book = IF lookedUp THEN findById(id) ELSE Null]
    IN  /\ Receive
        /\ IF ~g.next
           THEN /\ last' = Answer(req, "gate", g.status, g.reply)
                /\ UNCHANGED inflight
           ELSE IF ~isValid(id)
           THEN /\ last' = Answer(req, "id", 400, [message |-> "Invalid book ID"])
                /\ UNCHANGED inflight
           ELSE IF errors # {}
           THEN /\ last' = Answer(req, "validation", 400, [errors |-> errors])
                /\ UNCHANGED inflight
           ELSE IF afterLookup(req.book, g.user) = "missing"
           THEN /\ last' = Answer(req, "lookup", 404, [message |-> "Book not found"])
                /\ UNCHANGED inflight
           ELSE IF afterLookup(req.book, g.user) = "denied"
           THEN /\ last' = Answer(req, "lookup", 403, [message |-> denied])
                /\ UNCHANGED inflight
           ELSE /\ BagCardinality(inflight) < MaxInFlight
                /\ inflight' = inflight (+) SetToBag({req})
                /\ UNCHANGED last
        /\ UNCHANGED <<harness, year, now, users, books, created, issued>>

\* the part PUT, PATCH and DELETE share: the gate, the validation chain, the id check,
\* Book.findById, the existence check and the ownership check, in this order
MutationBegin(route, cred, id, body, errors, denied) ==
    LET g == Gate(cred)
        arrived == Request(route, cred.header, g.user, id, body)
        lookedUp == g.next /\ errors = {} /\ isValid(id)
        req == [arrived EXCEPT !.book = IF lookedUp THEN findById(id) ELSE Null]
    IN  /\ Receive
        /\ IF ~g.next
           THEN /\ last' = Answer(req, "gate", g.status, g.reply)
                /\ UNCHANGED inflight
           ELSE IF errors # {}
           THEN /\ last' = Answer(req, "validation", 400, [errors |-> errors])
                /\ UNCHANGED inflight
           ELSE IF ~isValid(id)
           THEN /\ last' = Answer(req, "id", 400, [message |-> "Invalid book ID"])
                /\ UNCHANGED inflight
           ELSE IF afterLookup(req.book, g.user) = "missing"
           THEN /\ last' = Answer(req, "lookup", 404, [message |-> "Book not found"])
                /\ UNCHANGED inflight
           ELSE IF afterLookup(req.book, g.user) = "denied"
           THEN /\ last' = Answer(req, "lookup", 403, [message |-> denied])
                /\ UNCHANGED inflight
           ELSE /\ BagCardinality(inflight) < MaxInFlight
                /\ inflight' = inflight (+) SetToBag({req})
                /\ UNCHANGED last
        /\ UNCHANGED <<harness, year, now, users, books, created, issued>>

\* PUT /books/:id up to and including Book.findById
PutBegin(cred, id, body) ==
    MutationBegin("PUT", cred, id, body, validateBook(body),
                  "You can only update books you added")

\* PATCH /books/:id up to and including Book.findById
PatchBegin(cred, id, body) ==
    MutationBegin("PATCH", cred, id, body, validatePatch(body),
                  "You can only update books you added")

\* DELETE /books/:id up to and including Book.findById
DeleteBegin(cred, id) ==
    MutationBegin("DELETE", cred, id, NoBody, {}, "You can only delete books you added")

UpdateWrite_ReturnsOriginal(p, update) ==
    LET n == p.id.oid
        before == IF n \in DOMAIN books THEN books[n] ELSE Null
        after == IF n \in DOMAIN books THEN applyUpdate(books[n], Schema(update)) ELSE Null
    IN  /\ BagIn(p, inflight)
        /\ inflight' = inflight (-) SetToBag({p})
        /\ books' = IF n \in DOMAIN books THEN [books EXCEPT ![n] = after] ELSE books
        /\ last' = Answer(p, "write", 200, [book |-> populate(before, users)])
        /\ UNCHANGED <<harness, year, now, users, created, issued, started>>

\* Book.findByIdAndUpdate(id, update, { new: true }).populate(...) and res.json
UpdateWrite(p, update) ==
    LET n == p.id.oid
        after == IF n \in DOMAIN books THEN applyUpdate(books[n], Schema(update)) ELSE Null
    IN  /\ BagIn(p, inflight)
        /\ inflight' = inflight (-) SetToBag({p})
        /\ books' = IF n \in DOMAIN books THEN [books EXCEPT ![n] = after] ELSE books
        /\ last' = Answer(p, "write", 200, [book |-> populate(after, users)])
        /\ UNCHANGED <<harness, year, now, users, created, issued, started>>

\* PUT /books/:id from Book.findByIdAndUpdate to the response
PutWrite(p) ==
    /\ p.route = "PUT"
    /\ UpdateWrite(p, WithAddedBy(p.body, p.user))

\* PATCH /books/:id from Book.findByIdAndUpdate to the response
PatchWrite(p) ==
    /\ p.route = "PATCH"
    /\ UpdateWrite(p, p.body)

DeleteWrite_KeepsDocument(p) ==
    /\ p.route = "DELETE"
    /\ BagIn(p, inflight)
    /\ inflight' = inflight (-) SetToBag({p})
    /\ last' = Answer(p, "write", 200, [message |-> "Book deleted successfully"])
    /\ UNCHANGED <<harness, year, now, users, books, created, issued, started>>

DeleteWrite_AnswersNotFound(p) ==
    /\ p.route = "DELETE"
    /\ BagIn(p, inflight)
    /\ inflight' = inflight (-) SetToBag({p})
    /\ books' = [i \in DOMAIN books \ {p.id.oid} |-> books[i]]
    /\ last' = Answer(p, "write", 404, [message |-> "Book not found"])
    /\ UNCHANGED <<harness, year, now, users, created, issued, started>>

\* DELETE /books/:id from Book.findByIdAndDelete to the response
DeleteWrite(p) ==
    /\ p.route = "DELETE"
    /\ BagIn(p, inflight)
    /\ inflight' = inflight (-) SetToBag({p})
    /\ books' = [i \in DOMAIN books \ {p.id.oid} |-> books[i]]
    /\ last' = Answer(p, "write", 200, [message |-> "Book deleted successfully"])
    /\ UNCHANGED <<harness, year, now, users, created, issued, started>>

-----------------------------------------------------------------------------
(* Store calls that reject.  Every handler awaits its store calls inside   *)
(* try { ... } catch (error) { ... next(error) }.                          *)

\* what the driver throws when the store cannot be reached
StoreError == [code |-> 0, message |-> "connect ECONNREFUSED 127.0.0.1:27017"]

\* the response of the catch block of route for a rejected store call
Caught(route) ==
    IF route = "register" THEN registerCatch(StoreError) ELSE errorHandler(StoreError)

\* the first store call of a handler rejects: the request passed the gate, the
\* validation chain and the id check
FirstCallThrows(route, cred, id, body) ==
    LET gated == route \in {"POST", "PUT", "PATCH", "DELETE"}
        g == IF gated THEN Gate(cred) ELSE mockAuth(NoUser)
        header == IF gated THEN cred.header ELSE NoHeader
        errors == IF route \in {"POST", "PUT"} THEN validateBook(body)
                  ELSE IF route = "PATCH" THEN validatePatch(body)
                  ELSE IF route = "register" THEN registerErrors(body)
                  ELSE IF route = "login" THEN loginErrors(body)
                  ELSE {}
        req == Request(route, header, g.user, id, body)
    IN  /\ Receive
        /\ g.next
        /\ errors = {}
        /\ route \in {"GET", "PUT", "PATCH", "DELETE"} => isValid(id)
        /\ last' = Answer(req, "error", Caught(route).status, Caught(route).reply)
        /\ UNCHANGED <<harness, year, now, users, books, created, issued, inflight>>

SecondCallThrows_NoResponse(p) ==
    /\ BagIn(p, inflight)
    /\ inflight' = inflight (-) SetToBag({p})
    /\ UNCHANGED <<harness, year, now, users, books, created, issued, started, last>>

\* the second store call of a handler rejects
SecondCallThrows(p) ==
    /\ BagIn(p, inflight)
    /\ inflight' = inflight (-) SetToBag({p})
    /\ last' = Answer(p, "error", Caught(p.route).status, Caught(p.route).reply)
    /\ UNCHANGED <<harness, year, now, users, books, created, issued, started>>

-----------------------------------------------------------------------------
Init ==
    /\ harness \in {"app", "unit"}
    /\ year = StartYear
    /\ now = 0
    /\ users = {}
    /\ books = <<>>
    /\ created = 0
    /\ issued = {}
    /\ inflight = EmptyBag
    /\ started = 0
    /\ last = [Answer(Request("none", NoHeader, NoUser, NoId, NoBody), "none", 0, NoBody)
                   EXCEPT !.n = 0]

NextAuth ==
    \/ /\ started < MaxAuthRequests
       /\ \/ \E u \in Usernames, p \in Passwords : RegisterBegin(u, p)
          \/ \E u \in Usernames \cup {""}, p \in Passwords \cup {""} : Login(u, p)
    \/ \E q \in BagToSet(inflight), s \in Salts : RegisterSave(q, s)
    \/ Tick

\* the auth routes are mounted by src/app.js only
InitApp == Init /\ harness = "app"

SpecAuth == InitApp /\ [][NextAuth]_vars

\* The gate reads the Authorization header only: a request it rejects is sent
\* with one id and one body.
Sent(cred, id, body) ==
    \/ Gate(cred).next
    \/ /\ id \in {NoId, [raw |-> "not-an-object-id"]}
       /\ body \in {NoBody, [title |-> "Zig"]}

NextBooks ==
    \/ \E c \in Credentials, b \in Bodies : Sent(c, NoId, b) /\ CreateBook(c, b)
    \/ ListBooks
    \/ \E i \in ParamIds : GetBook(i)
    \/ \E c \in Credentials, i \in ParamIds, b \in Bodies :
           Sent(c, i, b) /\ PutBegin(c, i, b)
    \/ \E c \in Credentials, i \in ParamIds, b \in Bodies :
           Sent(c, i, b) /\ PatchBegin(c, i, b)
    \/ \E c \in Credentials, i \in ParamIds : Sent(c, i, NoBody) /\ DeleteBegin(c, i)
    \/ \E q \in BagToSet(inflight) : PutWrite(q)
    \/ \E q \in BagToSet(inflight) : PatchWrite(q)
    \/ \E q \in BagToSet(inflight) : DeleteWrite(q)

\* the auth routes as the scenarios of the book routes need them
\* (the test wiring mounts the book routes alone: no login, and no token is read)
NextUsers ==
    \/ \E u \in {"alice01", "bobby02"} : RegisterBegin(u, "secretpw")
    \/ \E q \in BagToSet(inflight) : RegisterSave(q, "s1")
    \/ harness = "app" /\ \E u \in {"alice01", "bobby02"} : Login(u, "secretpw")
    \/ harness = "app" /\ Tick

Next == NextUsers \/ NextBooks

\* the routes that carry a validation chain for book fields, with every kind of body
NextValidation ==
    \/ /\ started < MaxValidationRequests
       /\ \/ RegisterBegin("alice01", "secretpw")
          \/ harness = "app" /\ Login("alice01", "secretpw")
          \/ \E c \in Credentials, b \in WireBodies : Sent(c, NoId, b) /\ CreateBook(c, b)
          \/ \E c \in Credentials, i \in ParamIds, b \in WireBodies :
                 Sent(c, i, b) /\ PutBegin(c, i, b)
          \/ \E c \in Credentials, i \in ParamIds, b \in WireBodies :
                 Sent(c, i, b) /\ PatchBegin(c, i, b)
    \/ \E q \in BagToSet(inflight) : RegisterSave(q, "s1")
    \/ \E q \in BagToSet(inflight) : PutWrite(q)
    \/ \E q \in BagToSet(inflight) : PatchWrite(q)
    \/ NewYear

SpecValidation == Init /\ [][NextValidation]_vars

\* the continuation of a handler after its awaited store call settled
Respond ==
    \E q \in BagToSet(inflight) :
        \/ RegisterSave(q, "s1")
        \/ PutWrite(q)
        \/ PatchWrite(q)
        \/ DeleteWrite(q)
        \/ SecondCallThrows(q)

FaultBody == [title |-> "Go", author |-> "X", publishedYear |-> Num(2020)]

\* every endpoint, with store calls that return or throw
NextFaults ==
    \/ /\ started < MaxFaultRequests
       /\ \/ RegisterBegin("alice01", "secretpw")
          \/ harness = "app" /\ Login("alice01", "secretpw")
          \/ \E c \in Credentials : Sent(c, NoId, FaultBody) /\ CreateBook(c, FaultBody)
          \/ ListBooks
          \/ \E i \in ParamIds : GetBook(i)
          \/ \E c \in Credentials, i \in ParamIds :
                 Sent(c, i, FaultBody) /\ PutBegin(c, i, FaultBody)
          \/ \E c \in Credentials, i \in ParamIds :
                 Sent(c, i, [title |-> "Zig"]) /\ PatchBegin(c, i, [title |-> "Zig"])
          \/ \E c \in Credentials, i \in ParamIds : Sent(c, i, NoBody) /\ DeleteBegin(c, i)
          \/ \E r \in {"register", "login"} :
                 FirstCallThrows(r, [header |-> NoHeader, identity |-> NoUser], NoId,
                                 [username |-> "alice01", password |-> "secretpw"])
          \/ FirstCallThrows("LIST", [header |-> NoHeader, identity |-> NoUser], NoId, NoBody)
          \/ FirstCallThrows("GET", [header |-> NoHeader, identity |-> NoUser],
                             [oid |-> 1], NoBody)
          \/ \E c \in Credentials :
                 \/ FirstCallThrows("POST", c, NoId, FaultBody)
                 \/ \E r \in {"PUT", "PATCH"} : FirstCallThrows(r, c, [oid |-> 1], FaultBody)
                 \/ FirstCallThrows("DELETE", c, [oid |-> 1], NoBody)
    \/ Respond

\* the event loop runs the continuation of every settled store call
SpecFaults == Init /\ [][NextFaults]_vars /\ WF_vars(Respond)

Spec == Init /\ [][Next]_vars

-----------------------------------------------------------------------------
(* Properties *)

Mutating  == {"PUT", "PATCH", "DELETE"}
Protected == Mutating \cup {"POST"}

\* the errors the validation chain of a's route finds in a's body
RouteErrors(a) ==
    IF a.route \in {"POST", "PUT"} THEN validateBook(a.body)
    ELSE IF a.route = "PATCH" THEN validatePatch(a.body)
    ELSE {}

\* the gate verified a's bearer token when a arrived
Verified(a) ==
    /\ a.header.scheme = "Bearer"
    /\ jwt_verify(a.header.token, "jwtSecret", a.at)

\* C1: when the document a PUT, PATCH or DELETE handler looked up exists and its
\* addedBy is not the acting identity's id, the response is 403 and the step that
\* answers the request leaves the Book collection as it was.
C1_NonOwnerForbidden ==
    [][(/\ last'.n # last.n
        /\ last'.route \in Mutating
        /\ last'.book # Null
        /\ ~equals(last'.book.addedBy, last'.user))
       => (last'.status = 403 /\ books' = books)]_vars

C1_Witness ==
    /\ last.route \in Mutating
    /\ last.status = 403
    /\ last.book # Null
    /\ "_id" \in DOMAIN last.user
    /\ last.book.addedBy # last.user._id
    /\ last.id.oid \in DOMAIN books
    /\ books[last.id.oid] = last.book

\* C2: a POST /books that presents a token issued by Login, still valid, through
\* middleware/auth, with a valid body, is answered 201 with addedBy the id of the
\* user the token was issued to.
C2_TokenHolderCreates ==
    (/\ harness = "app"
     /\ last.route = "POST"
     /\ Verified(last)
     /\ last.header.token \in issued
     /\ validateBook(last.body) = {})
    => /\ last.status = 201
       /\ \E u \in users : /\ u.username = last.header.token.username
                           /\ last.reply.book.addedBy = u._id

\* C3: a GET /books/:id answered right after the POST that created the document
\* returns 200 with the document, its addedBy being the creator (expanded to
\* _id and username, _id the creator's id).
C3_GetAfterCreate ==
    (last.route = "GET" /\ last.createdBy # NoUser)
    => /\ last.status = 200
       /\ last.reply.book.addedBy # Null
       /\ last.reply.book.addedBy._id = last.createdBy._id

C3_Witness ==
    /\ last.route = "GET"
    /\ last.createdBy # NoUser
    /\ last.status = 200
    /\ last.reply.book.addedBy._id = last.createdBy._id
    /\ Cardinality(users) = 2

\* C4: a PUT, PATCH or DELETE that passed the gate and the validation chain and
\* names a well-formed id no stored document has is answered 404 (never 403),
\* whoever sent it, and changes nothing.
C4_MissingIsNotFound ==
    [][(/\ last'.n # last.n
        /\ started' = started + 1
        /\ last'.route \in Mutating
        /\ last'.user # NoUser
        /\ RouteErrors(last') = {}
        /\ isValid(last'.id)
        /\ last'.id.oid \notin DOMAIN books)
       => (last'.status = 404 /\ books' = books /\ inflight' = inflight)]_vars

C4_Witness ==
    /\ last.route \in Mutating
    /\ last.status = 404
    /\ "_id" \in DOMAIN last.user
    /\ books # <<>>
    /\ \A i \in DOMAIN books : books[i].addedBy # last.user._id

\* C5: behind middleware/auth, the handler of a protected route runs exactly when
\* the gate verified the bearer token of that request; a request the gate rejects
\* is answered 401 or 403 and changes nothing, and the Book collection changes
\* only in the step that answers a request whose token was verified.
C5_GateBeforeHandler ==
    [][harness = "app" =>
        /\ (last'.n # last.n /\ last'.route \in Protected)
             => /\ (last'.phase = "gate") <=> ~Verified(last')
                /\ last'.phase = "gate"
                     => /\ last'.status \in {401, 403}
                        /\ books' = books
                        /\ inflight' = inflight
        /\ books' # books
             => (last'.n # last.n /\ last'.route \in Protected /\ Verified(last'))
        /\ \A p \in BagToSet(inflight') : p.route \in Protected => Verified(p)]_vars

C5_Witness ==
    /\ harness = "app"
    /\ last.route \in Protected
    /\ Verified(last)
    /\ last.phase # "gate"

\* C6: middleware/auth answers 401 when there is no Authorization header, 401
\* when the header does not start with "Bearer ", 403 when the token fails
\* verification (signature or expiry); only when verification succeeds is
\* req.user the decoded payload and the handler run.
C6_GateResponses ==
    (harness = "app" /\ last.route \in Protected) =>
        IF last.header.scheme = "none"
        THEN last.phase = "gate" /\ last.status = 401 /\ last.user = NoUser
        ELSE IF last.header.scheme # "Bearer"
        THEN last.phase = "gate" /\ last.status = 401 /\ last.user = NoUser
        ELSE IF ~jwt_verify(last.header.token, "jwtSecret", last.at)
        THEN last.phase = "gate" /\ last.status = 403 /\ last.user = NoUser
        ELSE last.phase # "gate" /\ last.user = jwt_decoded(last.header.token)

\* an expired token of Login is rejected with 403
C6_Witness ==
    /\ harness = "app"
    /\ last.route \in Protected
    /\ last.header.scheme = "Bearer"
    /\ last.header.token \in issued
    /\ last.at >= last.header.token.exp
    /\ last.status = 403

\* C7: a login that fails because the username is not stored and a login that
\* fails because the password does not match are answered alike: 400 with the
\* text 'Invalid credentials'.
C7_LoginFailuresAlike ==
    /\ (/\ last.route = "login"
        /\ last.phase = "lookup"
        /\ \/ findOne(last.body.username) = {}
           \/ \A u \in findOne(last.body.username) :
                  ~bcrypt_compare(last.body.password, u.password))
       => (last.status = 400 /\ last.reply = [text |-> "Invalid credentials"])
    /\ \A known \in users, unknown \in Usernames, p1 \in Passwords, p2 \in Passwords :
           (findOne(unknown) = {} /\ ~bcrypt_compare(p1, known.password))
           => LoginResponse([username |-> known.username, password |-> p1], users, now)
                = LoginResponse([username |-> unknown, password |-> p2], users, now)

\* a wrong password for a stored username, while another username is not stored
C7_Witness ==
    /\ last.route = "login"
    /\ last.status = 400
    /\ last.reply = [text |-> "Invalid credentials"]
    /\ findOne(last.body.username) # {}
    /\ \E unknown \in Usernames : findOne(unknown) = {}

\* C8: once a username is stored, every Register for it that passes validation is
\* answered 400 'Username already exists', whatever its password, and leaves the
\* User collection as it was.
C8_DuplicateRejected ==
    [][(/\ last'.n # last.n
        /\ last'.route = "register"
        /\ registerErrors(last'.body) = {}
        /\ findOne(last'.body.username) # {})
       => /\ last'.status = 400
          /\ last'.reply = [message |-> "Username already exists"]
          /\ users' = users]_vars

\* a second Register with another password
C8_Witness ==
    /\ last.route = "register"
    /\ last.phase = "lookup"
    /\ last.status = 400
    /\ \E u \in findOne(last.body.username) : ~bcrypt_compare(last.body.password, u.password)

\* C9: when a Register that passed the lookup reaches its insert, it is answered
\* 201 and stores one user if the username is still free; if another Register
\* stored the username in between, the insert's duplicate-key error is answered
\* 400 'Username already exists' (never 500) and nothing is stored.
C9_RaceNormalized ==
    [][(last'.n # last.n /\ last'.route = "register" /\ last'.phase = "write")
       => IF findOne(last'.body.username) # {}
          THEN /\ last'.status = 400
               /\ last'.reply = [message |-> "Username already exists"]
               /\ users' = users
          ELSE /\ last'.status = 201
               /\ Cardinality(users') = Cardinality(users) + 1
               /\ \E u \in users' \ users : u.username = last'.body.username]_vars

\* the loser of a race
C9_Witness ==
    /\ last.route = "register"
    /\ last.phase = "write"
    /\ last.status = 400
    /\ findOne(last.body.username) # {}

\* C10: the User collection never holds two documents with the same username.
C10_UniqueUsernames ==
    \A u1 \in users, u2 \in users : u1.username = u2.username => u1 = u2

\* two users stored, and a Register lost a race
C10_Witness ==
    /\ Cardinality(users) = 2
    /\ last.route = "register"
    /\ last.phase = "write"
    /\ last.status = 400

\* C11: Login answers 200 with a token exactly when the username is stored and the
\* password matches the stored hash; the token carries the username, iat and
\* exp = iat + one hour and nothing of the password; middleware/auth lets a
\* request with that token through at any time before iat + one hour and answers
\* 403 from then on.
C11_LoginAndTokenLifetime ==
    /\ \A u \in Usernames, p \in Passwords :
           LoginResponse([username |-> u, password |-> p], users, now).status = 200
           <=> \E user \in users : user.username = u /\ bcrypt_compare(p, user.password)
    /\ last.route = "login"
         => /\ last.status = 200
                <=> \E user \in users : /\ user.username = last.body.username
                                        /\ bcrypt_compare(last.body.password, user.password)
            /\ last.status = 200
                => /\ last.reply.token \in issued
                   /\ last.reply.token.username = last.body.username
                   /\ last.reply.token.iat = last.at
    /\ \A t \in issued :
           /\ t.exp = t.iat + ExpiresIn
           /\ DOMAIN jwt_decoded(t) = {"username", "iat", "exp"}
           /\ \E u \in users : jwt_decoded(t).username = u.username
    /\ (/\ harness = "app"
        /\ last.route \in Protected
        /\ last.header.scheme = "Bearer"
        /\ last.header.token \in issued)
       => IF last.at < last.header.token.iat + ExpiresIn
          THEN last.phase # "gate" /\ last.user.username = last.header.token.username
          ELSE last.phase = "gate" /\ last.status = 403

\* a token of Login is refused more than an hour after it was issued, and the
\* same token was accepted within the hour
C11_Witness ==
    /\ harness = "app"
    /\ last.route \in Protected
    /\ last.header.scheme = "Bearer"
    /\ last.header.token \in issued
    /\ last.at > last.header.token.iat + ExpiresIn
    /\ last.status = 403

\* C12: after a PUT or PATCH that updated a document and answered 200, the
\* document's addedBy is the id of the identity that sent the request, whatever
\* the request body holds.
C12_OwnerAfterUpdate ==
    (/\ last.route \in {"PUT", "PATCH"}
     /\ last.phase = "write"
     /\ last.status = 200
     /\ last.id.oid \in DOMAIN books)
    => books[last.id.oid].addedBy = last.user._id

BookFields == {"title", "author", "publishedYear"}

\* C13: the step in which a PATCH updates a document and answers 200 gives the
\* fields among title, author and publishedYear that the body holds the body's
\* values, and leaves every other field of that document and every other
\* document as they were.
C13_MergeFrame ==
    [][(/\ last'.n # last.n
        /\ last'.route = "PATCH"
        /\ last'.phase = "write"
        /\ last'.status = 200
        /\ last'.id.oid \in DOMAIN books)
       => /\ DOMAIN books' = DOMAIN books
          /\ \A i \in DOMAIN books :
                 /\ DOMAIN books'[i] = DOMAIN books[i]
                 /\ \A f \in DOMAIN books[i] :
                        books'[i][f] =
                            IF i = last'.id.oid /\ f \in DOMAIN last'.body \cap BookFields
                            THEN last'.body[f] ELSE books[i][f]]_vars

\* the claim's rule for one field in calendar year y: title and author are not
\* empty, publishedYear is an integer from 1 to y
FieldOk(body, f, y) ==
    IF f = "publishedYear"
    THEN isInt(body[f]) /\ body[f].int \in 1..y
    ELSE body[f] # ""

\* C14: a POST, PUT or PATCH that passed the gate is answered 400 with an errors
\* list naming the field, and stores nothing, when a field of title, author,
\* publishedYear breaks its rule (the year being the calendar year of the
\* request); for POST and PUT a missing field breaks its rule, for PATCH only
\* the fields in the body count: a PATCH is never rejected for a field it does
\* not supply.
C14_InvalidFieldsRejected ==
    [][(/\ last'.n # last.n
        /\ last'.route \in {"POST", "PUT", "PATCH"}
        /\ last'.phase # "gate")
       => LET body == last'.body
              broken == {f \in BookFields :
                            IF f \in DOMAIN body THEN ~FieldOk(body, f, last'.yr)
                            ELSE last'.route # "PATCH"}
          IN  /\ broken # {}
                 => /\ last'.status = 400
                    /\ last'.phase = "validation"
                    /\ broken \subseteq last'.reply.errors
                    /\ books' = books
                    /\ created' = created
                    /\ inflight' = inflight
              /\ (last'.route = "PATCH" /\ last'.phase = "validation")
                 => last'.reply.errors \subseteq DOMAIN body]_vars

\* the owner's PATCH of an existing book with a year after the current one
C14_Witness ==
    /\ last.route = "PATCH"
    /\ last.status = 400
    /\ last.phase = "validation"
    /\ "publishedYear" \in DOMAIN last.body
    /\ isInt(last.body.publishedYear)
    /\ last.body.publishedYear.int > StartYear
    /\ isValid(last.id)
    /\ last.id.oid \in DOMAIN books
    /\ equals(books[last.id.oid].addedBy, last.user)

\* C15: after a PUT that updated a document and answered 200, the document's
\* title, author and publishedYear are those of the request body, and the
\* response carries the document as it is stored (addedBy expanded).
C15_ReplaceSetsFields ==
    (/\ last.route = "PUT"
     /\ last.phase = "write"
     /\ last.status = 200
     /\ last.id.oid \in DOMAIN books)
    => /\ \A f \in BookFields : books[last.id.oid][f] = last.body[f]
       /\ last.reply.book = populate(books[last.id.oid], users)

\* a PUT that changed all three fields
C15_Witness ==
    /\ last.route = "PUT"
    /\ last.phase = "write"
    /\ last.status = 200
    /\ last.id.oid \in DOMAIN books
    /\ \A f \in BookFields : last.book[f] # last.body[f]
    /\ \A f \in BookFields : last.reply.book[f] = last.body[f]
    /\ last.reply.book.addedBy # Null

\* C16: the step in which a DELETE removes a document and answers 200 removes
\* that document and leaves every other document as it was; a removed id never
\* returns to the collection; and a GET, or a DELETE that passed the gate, which
\* arrives while the id of a removed document is absent is answered 404; GET
\* /books lists no removed document.
C16_DeleteRemovesExactlyOne ==
    [][/\ (/\ last'.n # last.n
           /\ last'.route = "DELETE"
           /\ last'.phase = "write"
           /\ last'.status = 200
           /\ last'.id.oid \in DOMAIN books)
          => books' = [i \in DOMAIN books \ {last'.id.oid} |-> books[i]]
       /\ \A i \in 1..created : i \notin DOMAIN books => i \notin DOMAIN books'
       /\ (/\ last'.n # last.n
           /\ started' = started + 1
           /\ last'.route \in {"GET", "DELETE"}
           /\ last'.phase # "gate"
           /\ isValid(last'.id)
           /\ last'.id.oid \in 1..created
           /\ last'.id.oid \notin DOMAIN books)
          => (last'.status = 404 /\ books' = books /\ inflight' = inflight)
       /\ (last'.n # last.n /\ last'.route = "LIST")
          => \A b \in last'.reply.books : b._id \in DOMAIN books]_vars

\* a second DELETE, by the one who deleted the document
C16_Witness ==
    /\ last.route = "DELETE"
    /\ last.status = 404
    /\ "_id" \in DOMAIN last.user
    /\ isValid(last.id)
    /\ last.id.oid \in 1..created
    /\ last.id.oid \notin DOMAIN books

\* C17: GET /books/:id reads no token and is never answered by the gate; it
\* answers 400 'Invalid book ID' for a malformed id, 404 for a well-formed id no
\* document has, 200 with the stored document (addedBy expanded) otherwise; the
\* step that answers it changes neither collection.
C17_GetById ==
    [][(last'.n # last.n /\ last'.route = "GET")
       => /\ last'.header = NoHeader
          /\ last'.phase # "gate"
          /\ IF ~isValid(last'.id)
             THEN last'.status = 400 /\ last'.reply = [message |-> "Invalid book ID"]
             ELSE IF last'.id.oid \notin DOMAIN books
             THEN last'.status = 404 /\ last'.reply = [message |-> "Book not found"]
             ELSE /\ last'.status = 200
                  /\ last'.reply = [book |-> populate(books[last'.id.oid], users)]
          /\ books' = books
          /\ users' = users
          /\ inflight' = inflight]_vars

\* a malformed id while a document is stored
C17_Witness ==
    /\ last.route = "GET"
    /\ last.status = 400
    /\ ~isValid(last.id)
    /\ books # <<>>

\* C18: a Register whose username has fewer than 6 characters or whose password
\* has fewer than 8 is answered 400 with the validation errors by the validation
\* stage, before the lookup (also when the username is already stored) and
\* before the insert: no user is stored and no insert is pending.
C18_RegisterValidation ==
    [][(/\ last'.n # last.n
        /\ last'.route = "register"
        /\ \/ Len(last'.body.username) < 6
           \/ Len(last'.body.password) < 8)
       => /\ last'.status = 400
          /\ last'.phase = "validation"
          /\ "errors" \in DOMAIN last'.reply
          /\ last'.reply.errors # {}
          /\ users' = users
          /\ inflight' = inflight]_vars

\* a short password for a username that is already stored
C18_Witness ==
    /\ last.route = "register"
    /\ last.status = 400
    /\ last.phase = "validation"
    /\ Len(last.body.password) < 8
    /\ findOne(last.body.username) # {}

\* C19: GET /books reads no token and answers 200 with every document of the
\* Book collection; the collection gains a document only in the step that
\* answers a POST with 201 (the document of the response) and loses one only in
\* the step that answers a DELETE with 200 (the document the request names).
C19_ListReturnsAll ==
    [][/\ (last'.n # last.n /\ last'.route = "LIST")
          => /\ last'.header = NoHeader
             /\ last'.status = 200
             /\ last'.reply.books = {populate(books[i], users) : i \in DOMAIN books}
             /\ {b._id : b \in last'.reply.books} = DOMAIN books
             /\ books' = books
       /\ (last'.n # last.n /\ last'.route = "POST" /\ last'.status = 201)
          => /\ last'.reply.book._id \notin DOMAIN books
             /\ DOMAIN books' = DOMAIN books \cup {last'.reply.book._id}
       /\ DOMAIN books' # DOMAIN books
          => /\ last'.n # last.n
             /\ \/ last'.route = "POST" /\ last'.status = 201
                \/ /\ last'.route = "DELETE" /\ last'.status = 200
                   /\ DOMAIN books' = DOMAIN books \ {last'.id.oid}]_vars

\* two documents created, both listed
C19_Witness ==
    /\ last.route = "LIST"
    /\ created = 2
    /\ Cardinality(last.reply.books) = 2
    /\ {b._id : b \in last.reply.books} = {1, 2}

\* C20: a Register that stores a user is answered 201 with the text 'User
\* registered successfully' and no token, and issues none; the set of issued
\* tokens grows only in the step that answers a Login with 200, by the token of
\* that response.
C20_OnlyLoginIssues ==
    [][/\ (last'.n # last.n /\ last'.route = "register" /\ last'.status = 201)
          => /\ last'.reply = [text |-> "User registered successfully"]
             /\ issued' = issued
       /\ issued' # issued
          => /\ last'.n # last.n
             /\ last'.route = "login"
             /\ last'.status = 200
             /\ issued' = issued \cup {last'.reply.token}]_vars

\* a Register that succeeds after a Login has issued a token
C20_Witness ==
    /\ last.route = "register"
    /\ last.status = 201
    /\ issued # {}
    /\ Cardinality(users) = 2

\* C26: a POST, PUT or PATCH that passed the gate, with a title and an author
\* that keep their rules and a publishedYear equal to the calendar year of the
\* request, is not rejected by the validation chain, also after the calendar
\* year has turned.
C26_CurrentYearAccepted ==
    (/\ last.route \in {"POST", "PUT", "PATCH"}
     /\ last.phase # "gate"
     /\ "publishedYear" \in DOMAIN last.body
     /\ last.body.publishedYear = Num(last.yr)
     /\ \A f \in {"title", "author"} :
            IF f \in DOMAIN last.body THEN last.body[f] # "" ELSE last.route = "PATCH")
    => last.phase # "validation"

\* C21: a failure raised inside a handler is answered 500 with the message
\* 'Internal Server Error', whatever the text of the error.
C21_GenericInternalError ==
    last.phase = "error"
    => /\ last.status = 500
       /\ last.reply.error.message = "Internal Server Error"

\* the arrival numbers of the requests between two store calls
Pending == {p.n : p \in BagToSet(inflight)}

\* C30: a request is answered in the step it arrives in or waits for its second
\* store call; a waiting request is answered once, by the step that takes it
\* out of the waiting ones; no answer is sent for a request that is not waiting,
\* and every waiting request is answered eventually.
C30_ExactlyOneResponse ==
    /\ [][/\ started' = started + 1
             => \/ last'.n = started' /\ inflight' = inflight
                \/ /\ last' = last
                   /\ Pending' = Pending \cup {started'}
                   /\ BagCardinality(inflight') = BagCardinality(inflight) + 1
          /\ started' = started
             => \/ last' = last /\ inflight' = inflight
                \/ /\ last'.n \in Pending
                   /\ last'.n # last.n
                   /\ Pending' = Pending \ {last'.n}
                   /\ BagCardinality(inflight') = BagCardinality(inflight) - 1
          /\ Cardinality(Pending) = BagCardinality(inflight)
          /\ \A n \in Pending : n <= started /\ n # last.n]_vars
    /\ \A n \in 1..MaxFaultRequests : (n \in Pending) ~> (last.n = n)

\* a request whose second store call threw has been answered, by the error handler
C30_Witness ==
    /\ last.phase = "error"
    /\ last.route \in {"PUT", "PATCH", "DELETE"}
    /\ last.book # Null
    /\ inflight = EmptyBag
    /\ started = MaxFaultRequests

\* C22: a PUT or PATCH answered 200 by its write step carries the stored
\* document (never null), whatever other requests ran between its lookup and
\* its write.
C22_SuccessCarriesRecord ==
    (/\ last.route \in {"PUT", "PATCH"}
     /\ last.phase = "write"
     /\ last.status = 200)
    => last.reply.book # Null

\* C23: the step in which a PUT, PATCH or DELETE changes the Book collection is
\* taken for an identity whose id is the document's addedBy in the state the
\* write is applied to.
C23_OwnerAtWrite ==
    [][(/\ last'.n # last.n
        /\ last'.route \in Mutating
        /\ last'.phase = "write"
        /\ books' # books)
       => equals(books[last'.id.oid].addedBy, last'.user)]_vars

\* C24: when a PUT reaches its write while the document exists, whatever was
\* written to the document since the PUT looked it up (by another PUT of the
\* owner in particular), it is answered 200 and the stored title, author and
\* publishedYear are all those of this request; a PUT that is still waiting is
\* not disturbed, and no other document changes.
C24_LastWriterWins ==
    [][(/\ last'.n # last.n
        /\ last'.route = "PUT"
        /\ last'.phase = "write"
        /\ last'.id.oid \in DOMAIN books)
       => /\ last'.status = 200
          /\ DOMAIN books' = DOMAIN books
          /\ \A f \in BookFields : books'[last'.id.oid][f] = last'.body[f]
          /\ \A i \in DOMAIN books \ {last'.id.oid} : books'[i] = books[i]
          /\ \A p \in BagToSet(inflight) : p.n # last'.n => BagIn(p, inflight')]_vars

\* two PUTs of the owner on one book looked it up before either wrote; the later
\* one has written and been answered 200, the earlier one, with other fields, is
\* still to write
C24_Witness ==
    /\ last.route = "PUT"
    /\ last.phase = "write"
    /\ last.status = 200
    /\ \E p \in BagToSet(inflight) :
           /\ p.route = "PUT"
           /\ p.id = last.id
           /\ p.user = last.user
           /\ p.n < last.n
           /\ p.book = last.book
           /\ \A f \in BookFields : p.body[f] # last.body[f]

\* C25: every stored book has a title and an author that are not empty, an
\* integer publishedYear from 1 to the calendar year, and an addedBy that is
\* the id of a stored user (users are never removed).
C25_StoredBooksValid ==
    \A i \in DOMAIN books :
        /\ books[i].title # ""
        /\ books[i].author # ""
        /\ isInt(books[i].publishedYear)
        /\ books[i].publishedYear.int \in 1..year
        /\ \E u \in users : u._id = books[i].addedBy

\* C27: behind middleware/auth a request carries an identity only if it
\* presented a token that Login issued, for the username of that identity, at or
\* before the time of the request and less than an hour before it; while no
\* Login has succeeded no request carries an identity.
C27_IdentityFromLogin ==
    harness = "app" =>
        \A a \in {last} \cup BagToSet(inflight) :
            (a.route \in Protected /\ a.user # NoUser)
            => /\ a.header.scheme = "Bearer"
               /\ a.header.token \in issued
               /\ a.user.username = a.header.token.username
               /\ a.header.token.iat <= a.at
               /\ a.at < a.header.token.iat + ExpiresIn

\* a token used some time after it was issued
C27_Witness ==
    /\ harness = "app"
    /\ last.route \in Protected
    /\ last.user # NoUser
    /\ last.header.token \in issued
    /\ last.user.username = last.header.token.username
    /\ last.at > last.header.token.iat

\* C28: the step that answers a request with 400, 401, 403 or 404 leaves the
\* User collection and the Book collection as they were (and the steps of that
\* request before its answer write nothing: C30's pending requests).
C28_RejectedChangesNothing ==
    [][(last'.n # last.n /\ last'.status \in {400, 401, 403, 404})
       => (users' = users /\ books' = books)]_vars

\* a Register that lost a race is answered 400 after its lookup found nothing
C28_Witness ==
    /\ last.route = "register"
    /\ last.phase = "write"
    /\ last.status = 400
    /\ books # <<>>

\* C29: a PUT or PATCH that passed the gate with fields that break the rules is
\* answered 400 with the errors list, also when its id is malformed; one with
\* valid fields and a malformed id is answered 400 'Invalid book ID'; in neither
\* case has the handler looked anything up.
C29_ValidationBeforeId ==
    (last.route \in {"PUT", "PATCH"} /\ last.phase # "gate")
    => /\ RouteErrors(last) # {}
          => /\ last.status = 400
             /\ last.phase = "validation"
             /\ last.reply = [errors |-> RouteErrors(last)]
             /\ last.book = Null
       /\ (RouteErrors(last) = {} /\ ~isValid(last.id))
          => /\ last.status = 400
             /\ last.phase = "id"
             /\ last.reply = [message |-> "Invalid book ID"]
             /\ last.book = Null

\* a malformed id together with fields that break the rules
C29_Witness ==
    /\ last.route \in {"PUT", "PATCH"}
    /\ last.phase # "gate"
    /\ ~isValid(last.id)
    /\ RouteErrors(last) # {}
    /\ "errors" \in DOMAIN last.reply

====
